---- MODULE Spec2Model ----
(***************************************************************************)
(* Model of SeatBookingSystem (src/SeatBookingSystem.py): the seat grid,   *)
(* the booking ledger and the operations is_seat_valid,                    *)
(* check_availability, book_seat, free_seat and show_booking_state.        *)
(*                                                                         *)
(* Python lists are objects: self.seating is a list of references to row   *)
(* lists.  The model keeps that structure: seating is the outer list (a    *)
(* sequence of object identifiers) and lists maps every allocated row      *)
(* object to its contents.  Python lists are indexed from 0 and accept     *)
(* negative indices; TLA+ sequences are indexed from 1, so getitem adds 1  *)
(* after Python's index normalisation.                                     *)
(*                                                                         *)
(* A cell value is a Python string, modelled as a sequence of characters.  *)
(***************************************************************************)
EXTENDS Integers, Sequences, FiniteSets, TLC

VARIABLES seating,   \* self.seating: the outer list, a sequence of row-object ids
          lists,     \* the row objects: object id -> sequence of cell values
          bookings,  \* self.bookings: reference -> booking record
          last,      \* the last call made on the object and what it returned
          trip,      \* observer of a book_seat / free_seat / book_seat sequence on one seat
          generated, \* the references returned by direct calls of
                     \* generate_unique_booking_reference, in order
          calls      \* thread -> the book_seat call it is running, line by line

vars == <<seating, lists, bookings, last, trip, generated, calls>>

----------------------------------------------------------------------------
(* Program constants *)

NumRows == 7
NumColumns == 4
RefLen == 8

F == <<"F">>
X == <<"X">>
S == <<"S">>

\* string.ascii_uppercase + string.digits
Alphabet ==
    << "A", "B", "C", "D", "E", "F", "G", "H", "I", "J", "K", "L", "M",
       "N", "O", "P", "Q", "R", "S", "T", "U", "V", "W", "X", "Y", "Z",
       "0", "1", "2", "3", "4", "5", "6", "7", "8", "9" >>

----------------------------------------------------------------------------
(* Bounds of the model *)

\* number of distinct strings random.choices is allowed to draw
NumDraws == 2
\* book_seat is not called on a free seat once this many bookings are live
MaxBookings == 2

\* generate_unique_booking_reference is called directly at most this many
\* times in a row
MaxGenerated == 3

\* row arguments tried: below the grid, the negative index Python wraps to
\* the last row, an ordinary row, the aisle, the first storage row (which
\* shares its list with the last row), beyond the grid
RowInputs == {-8, -1, 0, 3, 5, 7}
\* column arguments tried: a seat column, a storage column, beyond the grid
ColumnInputs == {0, 2, 4}
Passports == {"P123", "P456"}
FirstNames == {"Ann"}
LastNames == {"Lee"}

\* random.choices(Alphabet, k=k), restricted to NumDraws of its outcomes:
\* k - 1 times "F" and then one of "S", "T", ...
choices(k) ==
    { [j \in 1..k |-> IF j < k THEN Alphabet[6] ELSE Alphabet[18 + i]] :
        i \in 1..NumDraws }

\* a draw of one character instead of eight
DrawSetOneCharacter == choices(1)

\* the strings one pass of the loop can draw: "FFFFFFFS", "FFFFFFFT", ...
DrawSet == choices(RefLen)

----------------------------------------------------------------------------
(* Python list indexing *)

\* list.__getitem__ / __setitem__ index normalisation
PyIndex(len, i) == IF i < 0 THEN i + len ELSE i

\* FALSE is the case in which Python raises IndexError
IndexOk(len, i) == PyIndex(len, i) >= 0 /\ PyIndex(len, i) < len

getitem(list, i) == list[PyIndex(Len(list), i) + 1]

setitem(list, i, v) == [list EXCEPT ![PyIndex(Len(list), i) + 1] = v]

\* self.seating[row][column] does not raise IndexError
SeatIndexOk(row, column) ==
    /\ IndexOk(Len(seating), row)
    /\ IndexOk(Len(lists[getitem(seating, row)]), column)

\* self.seating[row][column]
SeatAt(row, column) == getitem(lists[getitem(seating, row)], column)

----------------------------------------------------------------------------
(* __init__ *)

\* the row objects after "self.seating = [['F' for _ in range(4)] for _ in range(7)]":
\* seven fresh lists, objects 0..6
InitSeating46 == [i \in 1..NumRows |-> i - 1]

\* "self.seating[3] = ['X', 'X', 'X', 'X']": a new list, object 7
InitSeating47 == setitem(InitSeating46, 3, NumRows)

\* "self.seating[5:7] = [['F', 'F', 'S', 'S']] * 2": one new list, object 8,
\* and the product repeats the reference to it
InitSeating48 ==
    [i \in 1..NumRows |-> IF i \in 6..7 THEN NumRows + 1 ELSE InitSeating47[i]]

InitLists ==
    [o \in 0..(NumRows + 1) |->
        IF o = NumRows THEN <<X, X, X, X>>
        ELSE IF o = NumRows + 1 THEN <<F, F, S, S>>
        ELSE [j \in 1..NumColumns |-> F]]

----------------------------------------------------------------------------
(* Results *)

NoRef == <<>>

Result(kind, reference, passport_number, first_name, last_name) ==
    [kind |-> kind, reference |-> reference, passport_number |-> passport_number,
     first_name |-> first_name, last_name |-> last_name]

Plain(kind) == Result(kind, NoRef, "", "", "")

Call(op, row, column, passport_number, first_name, last_name, result, view) ==
    [op |-> op, row |-> row, column |-> column,
     passport_number |-> passport_number, first_name |-> first_name,
     last_name |-> last_name, result |-> result, view |-> view]

----------------------------------------------------------------------------
(* generate_unique_booking_reference *)

\* the loop without its test: any draw is returned
generate_booking_reference_unchecked == DrawSet

\* the values the rejection loop can return: a draw that is not a ledger key
generate_unique_booking_reference == { ref \in DrawSet : ref \notin DOMAIN bookings }

----------------------------------------------------------------------------
(* is_seat_valid *)

\* the test against the aisle marker alone
is_seat_valid_seat_aisle_only(seat) == seat # X

\* is_seat_valid(seat=seat)
is_seat_valid_seat(seat) == seat \notin {X, S}

\* is_seat_valid(row, column): IndexError is caught and gives False
is_seat_valid(row, column) ==
    IF SeatIndexOk(row, column)
    THEN SeatAt(row, column) \notin {X, S}
    ELSE FALSE

----------------------------------------------------------------------------
(* check_availability *)

\* the value check_availability(row, column) returns in the current state;
\* "KeyError" is the exception self.bookings[seat] raises on a missing key
\* "seat = self.seating[row][column]" raises IndexError: it runs only after
\* is_seat_valid has returned True
CheckIndexError(row, column) ==
    is_seat_valid(row, column) /\ ~SeatIndexOk(row, column)

check_availability(row, column) ==
    IF ~is_seat_valid(row, column) THEN Plain("Invalid")
    ELSE IF CheckIndexError(row, column) THEN Plain("IndexError")
    ELSE LET seat == SeatAt(row, column) IN
         IF seat = F THEN Plain("Available")
         ELSE IF seat \notin DOMAIN bookings THEN Plain("KeyError")
         ELSE Result("Taken", seat, bookings[seat].passport_number,
                     bookings[seat].first_name, bookings[seat].last_name)

----------------------------------------------------------------------------
(* book_seat *)

\* the dict with the two names under each other's key
BookingRecordNamesSwapped(row, column, passport_number, first_name, last_name) ==
    [passport_number |-> passport_number, first_name |-> last_name,
     last_name |-> first_name, seat_row |-> row, seat_column |-> column]

\* the dict stored under the booking reference
BookingRecord(row, column, passport_number, first_name, last_name) ==
    [passport_number |-> passport_number, first_name |-> first_name,
     last_name |-> last_name, seat_row |-> row, seat_column |-> column]

\* self.bookings[key] = value
DictSet(d, key, value) ==
    [k \in DOMAIN d \cup {key} |-> IF k = key THEN value ELSE d[k]]

\* a del that removes nothing
DictDelNothing(d, key) == d

\* del self.bookings[key]
DictDel(d, key) == [k \in DOMAIN d \ {key} |-> d[k]]

\* self.seating[row][column] = value: the row object is updated in place
SeatSet(row, column, value) ==
    [lists EXCEPT ![getitem(seating, row)] = setitem(@, column, value)]

\* the condition of line 144 with its operands in the other order: the grid
\* is indexed before is_seat_valid is asked
BookIndexErrorOperandsSwapped(row, column) == ~SeatIndexOk(row, column)

\* the condition of line 144 raises IndexError: "or" evaluates
\* self.seating[row][column] only after is_seat_valid has returned True
BookIndexError(row, column) ==
    is_seat_valid(row, column) /\ ~SeatIndexOk(row, column)

\* the guard without its test that the seat is Free
BookRejectedValidityOnly(row, column) == ~is_seat_valid(row, column)

\* the guard of book_seat's early return
BookRejected(row, column) ==
    ~is_seat_valid(row, column) \/ SeatAt(row, column) # F

book_seat(row, column, passport_number, first_name, last_name) ==
    IF BookIndexError(row, column)
    THEN /\ last' = Call("book_seat", row, column, passport_number, first_name,
                         last_name, Plain("IndexError"), <<>>)
         /\ UNCHANGED <<seating, lists, bookings>>
    ELSE IF BookRejected(row, column)
    THEN /\ last' = Call("book_seat", row, column, passport_number, first_name,
                         last_name, Plain("SeatUnavailable"), <<>>)
         /\ UNCHANGED <<seating, lists, bookings>>
    ELSE /\ Cardinality(DOMAIN bookings) < MaxBookings
         /\ \E booking_reference \in generate_unique_booking_reference :
              /\ lists' = SeatSet(row, column, booking_reference)
              /\ bookings' = DictSet(bookings, booking_reference,
                                BookingRecord(row, column, passport_number,
                                              first_name, last_name))
              /\ last' = Call("book_seat", row, column, passport_number,
                              first_name, last_name,
                              Result("Booked", booking_reference, "", "", ""), <<>>)
         /\ UNCHANGED seating

----------------------------------------------------------------------------
(* free_seat *)

\* the condition of line 172 raises IndexError: "or" evaluates
\* self.seating[row][column] only after is_seat_valid has returned True
FreeIndexError(row, column) ==
    is_seat_valid(row, column) /\ ~SeatIndexOk(row, column)

\* the guard of free_seat's early return
FreeRejected(row, column) ==
    ~is_seat_valid(row, column) \/ SeatAt(row, column) = F

\* free_seat with "self.seating[row][column] = 'F'" outside the test of line 177:
\* the seat is cleared whether or not its reference is in the ledger
free_seat_clears_unknown(row, column) ==
    IF FreeIndexError(row, column)
    THEN /\ last' = Call("free_seat", row, column, "", "", "",
                         Plain("IndexError"), <<>>)
         /\ UNCHANGED <<seating, lists, bookings>>
    ELSE IF FreeRejected(row, column)
    THEN /\ last' = Call("free_seat", row, column, "", "", "",
                         Plain("AlreadyFreeOrInvalid"), <<>>)
         /\ UNCHANGED <<seating, lists, bookings>>
    ELSE LET booking_reference == SeatAt(row, column) IN
         IF booking_reference \in DOMAIN bookings
         THEN /\ bookings' = DictDel(bookings, booking_reference)
              /\ lists' = SeatSet(row, column, F)
              /\ last' = Call("free_seat", row, column, "", "", "",
                              Result("Freed", booking_reference, "", "", ""), <<>>)
              /\ UNCHANGED seating
         ELSE /\ lists' = SeatSet(row, column, F)
              /\ last' = Call("free_seat", row, column, "", "", "",
                              Plain("BookingNotFound"), <<>>)
              /\ UNCHANGED <<seating, bookings>>

\* free_seat without "self.seating[row][column] = 'F'"
free_seat_keeps_cell(row, column) ==
    IF FreeIndexError(row, column)
    THEN /\ last' = Call("free_seat", row, column, "", "", "",
                         Plain("IndexError"), <<>>)
         /\ UNCHANGED <<seating, lists, bookings>>
    ELSE IF FreeRejected(row, column)
    THEN /\ last' = Call("free_seat", row, column, "", "", "",
                         Plain("AlreadyFreeOrInvalid"), <<>>)
         /\ UNCHANGED <<seating, lists, bookings>>
    ELSE LET booking_reference == SeatAt(row, column) IN
         IF booking_reference \in DOMAIN bookings
         THEN /\ bookings' = DictDel(bookings, booking_reference)
              /\ last' = Call("free_seat", row, column, "", "", "",
                              Result("Freed", booking_reference, "", "", ""), <<>>)
              /\ UNCHANGED <<seating, lists>>
         ELSE /\ last' = Call("free_seat", row, column, "", "", "",
                              Plain("BookingNotFound"), <<>>)
              /\ UNCHANGED <<seating, lists, bookings>>

free_seat(row, column) ==
    IF FreeIndexError(row, column)
    THEN /\ last' = Call("free_seat", row, column, "", "", "",
                         Plain("IndexError"), <<>>)
         /\ UNCHANGED <<seating, lists, bookings>>
    ELSE IF FreeRejected(row, column)
    THEN /\ last' = Call("free_seat", row, column, "", "", "",
                         Plain("AlreadyFreeOrInvalid"), <<>>)
         /\ UNCHANGED <<seating, lists, bookings>>
    ELSE LET booking_reference == SeatAt(row, column) IN
         IF booking_reference \in DOMAIN bookings
         THEN /\ bookings' = DictDel(bookings, booking_reference)
              /\ lists' = SeatSet(row, column, F)
              /\ last' = Call("free_seat", row, column, "", "", "",
                              Result("Freed", booking_reference, "", "", ""), <<>>)
              /\ UNCHANGED seating
         ELSE /\ last' = Call("free_seat", row, column, "", "", "",
                              Plain("BookingNotFound"), <<>>)
              /\ UNCHANGED <<seating, lists, bookings>>

----------------------------------------------------------------------------
(* show_booking_state *)

\* a cell shown as booked when the ledger holds it
ShownCellFromLedger(x) == IF x \in DOMAIN bookings THEN <<"R">> ELSE x

\* the letter printed for a cell: "R" for a booked seat, else the cell itself
ShownCell(x) == IF is_seat_valid_seat(x) /\ x # F THEN <<"R">> ELSE x

\* the rows printed, in list order
ShownRows ==
    [i \in 1..Len(seating) |->
        [j \in 1..Len(lists[seating[i]]) |-> ShownCell(lists[seating[i]][j])]]

show_booking_state ==
    /\ last' = Call("show_booking_state", 0, 0, "", "", "", Plain("None"), ShownRows)
    /\ UNCHANGED <<seating, lists, bookings>>

----------------------------------------------------------------------------
(* the query operations as calls *)

call_is_seat_valid(row, column) ==
    /\ last' = Call("is_seat_valid", row, column, "", "", "",
                    Plain(IF is_seat_valid(row, column) THEN "True" ELSE "False"),
                    <<>>)
    /\ UNCHANGED <<seating, lists, bookings>>

call_check_availability(row, column) ==
    /\ last' = Call("check_availability", row, column, "", "", "",
                    check_availability(row, column), <<>>)
    /\ UNCHANGED <<seating, lists, bookings>>

----------------------------------------------------------------------------
(* Direct calls of generate_unique_booking_reference, and the specification
   that makes them between book_seat and free_seat calls *)

call_generate_unique_booking_reference ==
    /\ Len(generated) < MaxGenerated
    /\ \E reference \in generate_unique_booking_reference :
          /\ generated' = Append(generated, reference)
          /\ last' = Call("generate_unique_booking_reference", 0, 0, "", "", "",
                          Result("Reference", reference, "", "", ""), <<>>)
    /\ UNCHANGED <<seating, lists, bookings, trip, calls>>

\* the sequence of references generated in a row ends with any other call
EndOfSequence ==
    /\ generated' = <<>>
    /\ UNCHANGED <<trip, calls>>

GenGenerate == call_generate_unique_booking_reference

GenBookSeat ==
    /\ \E row \in RowInputs, column \in ColumnInputs,
          passport_number \in Passports, first_name \in FirstNames,
          last_name \in LastNames :
          book_seat(row, column, passport_number, first_name, last_name)
    /\ EndOfSequence

GenFreeSeat ==
    /\ \E row \in RowInputs, column \in ColumnInputs : free_seat(row, column)
    /\ EndOfSequence

----------------------------------------------------------------------------
(* Vocabulary of the properties *)

\* zero-based coordinates inside [0, rows) x [0, columns)
InBounds(row, column) ==
    row \in 0..(NumRows - 1) /\ column \in 0..(NumColumns - 1)

GridCells == (0..(NumRows - 1)) \X (0..(NumColumns - 1))

IsReference(v) == v \notin {F, X, S}

\* the value __init__ gives to cell (row, column)
InitSeatAt(row, column) ==
    getitem(InitLists[getitem(InitSeating48, row)], column)

\* the grid cells holding reference ref
CellsHolding(ref) == { p \in GridCells : SeatAt(p[1], p[2]) = ref }

----------------------------------------------------------------------------
(* Threads running book_seat *)

Threads == {"t1", "t2"}

\* no call in progress
NoCall ==
    [pc |-> "idle", row |-> 0, column |-> 0, passport_number |-> "",
     first_name |-> "", last_name |-> "", reference |-> NoRef,
     result |-> Plain("None"), overlapped |-> FALSE]

\* the test of line 68 the other way round: a draw is returned when it is a
\* ledger key
DrawAcceptedInverted(draw) == draw \in DOMAIN bookings

\* the test of line 68: the loop returns the draw
DrawAccepted(draw) == draw \notin DOMAIN bookings

\* thread t enters book_seat.  A call that would book a seat is not made once
\* MaxBookings bookings are live.  overlapped records that the call began
\* while a call of another thread was running.
BookBegin(t, row, column, passport_number, first_name, last_name) ==
    /\ calls[t].pc = "idle"
    /\ IF BookIndexError(row, column) \/ BookRejected(row, column)
       THEN TRUE
       ELSE Cardinality(DOMAIN bookings) < MaxBookings
    /\ calls' = [calls EXCEPT ![t] =
                    [pc |-> "check", row |-> row, column |-> column,
                     passport_number |-> passport_number,
                     first_name |-> first_name, last_name |-> last_name,
                     reference |-> NoRef, result |-> Plain("None"),
                     overlapped |-> \E u \in Threads \ {t} :
                                       calls[u].pc \notin {"idle", "done"}]]
    /\ UNCHANGED <<seating, lists, bookings, last, trip, generated>>

\* lines 144-145
BookCheck(t) ==
    /\ calls[t].pc = "check"
    /\ calls' = [calls EXCEPT ![t] =
          IF BookIndexError(calls[t].row, calls[t].column)
          THEN [@ EXCEPT !.pc = "done", !.result = Plain("IndexError")]
          ELSE IF BookRejected(calls[t].row, calls[t].column)
          THEN [@ EXCEPT !.pc = "done", !.result = Plain("SeatUnavailable")]
          ELSE [@ EXCEPT !.pc = "generate"]]
    /\ UNCHANGED <<seating, lists, bookings, last, trip, generated>>

\* lines 65-69, one pass of the loop: a draw, returned if the test accepts it
BookDraw(t) ==
    /\ calls[t].pc = "generate"
    /\ \E draw \in DrawSet :
          calls' = [calls EXCEPT ![t] =
                       [@ EXCEPT !.reference = draw,
                                 !.pc = IF DrawAccepted(draw)
                                        THEN "write" ELSE "generate"]]
    /\ UNCHANGED <<seating, lists, bookings, last, trip, generated>>

\* a pass of the loop whose draw is returned
BookDrawFresh(t) == BookDraw(t) /\ calls'[t].pc = "write"

\* line 149
BookWrite(t) ==
    /\ calls[t].pc = "write"
    /\ lists' = SeatSet(calls[t].row, calls[t].column, calls[t].reference)
    /\ calls' = [calls EXCEPT ![t].pc = "insert"]
    /\ UNCHANGED <<seating, bookings, last, trip, generated>>

\* lines 150-157
BookInsert(t) ==
    /\ calls[t].pc = "insert"
    /\ bookings' = DictSet(bookings, calls[t].reference,
                      BookingRecord(calls[t].row, calls[t].column,
                                    calls[t].passport_number,
                                    calls[t].first_name, calls[t].last_name))
    /\ calls' = [calls EXCEPT ![t] =
                    [@ EXCEPT !.pc = "done",
                              !.result = Result("Booked", calls[t].reference,
                                                "", "", "")]]
    /\ UNCHANGED <<seating, lists, last, trip, generated>>

\* the caller takes the result; the thread can call again
BookReturn(t) ==
    /\ calls[t].pc = "done"
    /\ calls' = [calls EXCEPT ![t] = NoCall]
    /\ UNCHANGED <<seating, lists, bookings, last, trip, generated>>

----------------------------------------------------------------------------
(* Observer of round trips: book_seat on a Free in-bounds seat, then
   free_seat on that seat, then book_seat on it again *)

\* the grid as the caller sees it: cell (row, column) for in-bounds coordinates
Grid == [p \in GridCells |-> SeatAt(p[1], p[2])]

NoTrip ==
    [phase |-> 0, row |-> 0, column |-> 0,
     grid0 |-> <<>>, bookings0 |-> <<>>, grid1 |-> <<>>]

\* the observer after the call recorded in last': phase 1 after the first
\* book_seat (grid0 and bookings0 are the grid and ledger before it, grid1 the
\* grid after it), phase 2 after the free_seat, phase 3 after the second
\* book_seat; any other call ends the observation
Tracked ==
    IF /\ last'.op = "book_seat" /\ trip.phase = 2
       /\ last'.row = trip.row /\ last'.column = trip.column
    THEN [trip EXCEPT !.phase = 3]
    ELSE IF /\ last'.op = "book_seat"
            /\ InBounds(last'.row, last'.column)
            /\ SeatAt(last'.row, last'.column) = F
    THEN [phase |-> 1, row |-> last'.row, column |-> last'.column,
          grid0 |-> Grid, bookings0 |-> bookings, grid1 |-> Grid']
    ELSE IF /\ last'.op = "free_seat" /\ trip.phase = 1
            /\ last'.row = trip.row /\ last'.column = trip.column
    THEN [trip EXCEPT !.phase = 2]
    ELSE NoTrip

Observe ==
    /\ trip' = Tracked
    /\ UNCHANGED <<generated, calls>>

----------------------------------------------------------------------------
(* Specification *)

Init ==
    /\ seating = InitSeating48
    /\ lists = InitLists
    /\ bookings = [ref \in {} |-> ref]
    /\ last = Call("__init__", 0, 0, "", "", "", Plain("None"), <<>>)
    /\ trip = NoTrip
    /\ generated = <<>>
    /\ calls = [t \in Threads |-> NoCall]

DoIsSeatValid ==
    /\ \E row \in RowInputs, column \in ColumnInputs :
          call_is_seat_valid(row, column)
    /\ Observe

DoCheckAvailability ==
    /\ \E row \in RowInputs, column \in ColumnInputs :
          call_check_availability(row, column)
    /\ Observe

DoBookSeat ==
    /\ \E row \in RowInputs, column \in ColumnInputs,
          passport_number \in Passports, first_name \in FirstNames,
          last_name \in LastNames :
          book_seat(row, column, passport_number, first_name, last_name)
    /\ Observe

DoFreeSeat ==
    /\ \E row \in RowInputs, column \in ColumnInputs : free_seat(row, column)
    /\ Observe

DoShowBookingState ==
    /\ show_booking_state
    /\ Observe

Next ==
    \/ DoIsSeatValid
    \/ DoCheckAvailability
    \/ DoBookSeat
    \/ DoFreeSeat
    \/ DoShowBookingState

Spec == Init /\ [][Next]_vars

\* States that a fault outside the class could leave behind: seats (0, 0) and
\* (5, 0) hold Free or any reference, and the ledger holds any set of
\* references.  free_seat and the queries then run as in Spec.
InitCorrupt ==
    /\ seating = InitSeating48
    /\ \E v1 \in {F} \cup DrawSet, v2 \in {F} \cup DrawSet :
          lists = [InitLists EXCEPT ![0][1] = v1, ![NumRows + 1][1] = v2]
    /\ \E keys \in SUBSET DrawSet, passport_number \in Passports :
          bookings = [ref \in keys |->
                         BookingRecord(0, 0, passport_number, "Ann", "Lee")]
    /\ last = Call("__init__", 0, 0, "", "", "", Plain("None"), <<>>)
    /\ trip = NoTrip
    /\ generated = <<>>
    /\ calls = [t \in Threads |-> NoCall]

NextCorrupt ==
    \/ DoIsSeatValid
    \/ DoCheckAvailability
    \/ DoFreeSeat
    \/ DoShowBookingState

SpecCorrupt == InitCorrupt /\ [][NextCorrupt]_vars

\* One thread calls book_seat again and again, line by line; between two
\* calls a seat can be freed.
LoopBegin ==
    \E row \in RowInputs, column \in ColumnInputs :
        BookBegin("t1", row, column, "P123", "Ann", "Lee")

LoopCheck == BookCheck("t1")

LoopDraw == BookDraw("t1")

LoopWrite == BookWrite("t1")

LoopInsert == BookInsert("t1")

LoopReturn == BookReturn("t1")

LoopFreeSeat ==
    /\ calls["t1"].pc = "idle"
    /\ \E row \in RowInputs, column \in ColumnInputs : free_seat(row, column)
    /\ last'.result.kind = "Freed"
    /\ UNCHANGED <<trip, generated, calls>>

NextLoop ==
    \/ LoopBegin
    \/ LoopCheck
    \/ LoopDraw
    \/ LoopWrite
    \/ LoopInsert
    \/ LoopReturn
    \/ LoopFreeSeat

\* a running call runs on, and random.choices does not draw ledger keys for ever
SpecLoop ==
    /\ Init
    /\ [][NextLoop]_vars
    /\ WF_vars(LoopCheck)
    /\ WF_vars(BookDrawFresh("t1"))
    /\ WF_vars(LoopWrite)
    /\ WF_vars(LoopInsert)

\* Two threads call book_seat once each, on a new SeatBookingSystem; their
\* lines interleave in any order, which includes one call after the other.
RaceBegin ==
    \E t \in Threads, row \in RowInputs, column \in ColumnInputs,
       passport_number \in Passports :
        BookBegin(t, row, column, passport_number, "Ann", "Lee")

RaceCheck == \E t \in Threads : BookCheck(t)

RaceDraw == \E t \in Threads : BookDraw(t)

RaceWrite == \E t \in Threads : BookWrite(t)

RaceInsert == \E t \in Threads : BookInsert(t)

NextRace ==
    \/ RaceBegin
    \/ RaceCheck
    \/ RaceDraw
    \/ RaceWrite
    \/ RaceInsert

SpecRace == Init /\ [][NextRace]_vars

NextGen ==
    \/ GenGenerate
    \/ GenBookSeat
    \/ GenFreeSeat

SpecGen == Init /\ [][NextGen]_vars

----------------------------------------------------------------------------
(* Properties *)

\* C1: a reference is a ledger key iff some grid cell holds it, and exactly
\* one grid cell holds it.
C1_LedgerGridOneToOne ==
    /\ \A ref \in DOMAIN bookings : Cardinality(CellsHolding(ref)) = 1
    /\ \A p \in GridCells :
         IsReference(SeatAt(p[1], p[2])) => SeatAt(p[1], p[2]) \in DOMAIN bookings

\* C2: for every (row, column) outside [0, rows) x [0, columns), negative
\* ones included, is_seat_valid is false and check_availability is Invalid.
C2_OutOfBoundsInvalid ==
    \A row \in RowInputs, column \in ColumnInputs :
        ~InBounds(row, column) =>
            /\ ~is_seat_valid(row, column)
            /\ check_availability(row, column).kind = "Invalid"

\* C3: book_seat on an address that is out of bounds, Blocked or already
\* Booked returns SeatUnavailable and changes neither grid nor ledger.
C3_BookNonFreeRejected ==
    [][ (/\ last'.op = "book_seat"
         /\ \/ ~InBounds(last'.row, last'.column)
            \/ SeatAt(last'.row, last'.column) # F)
        => (/\ last'.result.kind = "SeatUnavailable"
            /\ UNCHANGED <<seating, lists, bookings>>) ]_vars

\* C4: free_seat on an address that is out of bounds, Blocked or Free returns
\* AlreadyFreeOrInvalid and changes neither grid nor ledger.
C4_FreeNonBookedRejected ==
    [][ (/\ last'.op = "free_seat"
         /\ \/ ~InBounds(last'.row, last'.column)
            \/ SeatAt(last'.row, last'.column) \in {F, X, S})
        => (/\ last'.result.kind = "AlreadyFreeOrInvalid"
            /\ UNCHANGED <<seating, lists, bookings>>) ]_vars

\* C5: the coordinates stored in every ledger entry are in-bounds zero-based
\* coordinates and the grid cell there holds the entry's reference.
C5_LedgerCoordinatesAgree ==
    \A ref \in DOMAIN bookings :
        /\ InBounds(bookings[ref].seat_row, bookings[ref].seat_column)
        /\ SeatAt(bookings[ref].seat_row, bookings[ref].seat_column) = ref

\* C6: book_seat on a Free seat succeeds, and check_availability on that seat
\* right after it is Taken with the reference just issued and exactly the
\* passport number, first name and last name supplied.
C6_BookThenCheckTaken ==
    [][ \A row \in RowInputs, column \in ColumnInputs :
          (/\ last'.op = "book_seat"
           /\ last'.row = row /\ last'.column = column
           /\ InBounds(row, column)
           /\ SeatAt(row, column) = F)
          => (/\ last'.result.kind = "Booked"
              /\ check_availability(row, column)' =
                    Result("Taken", last'.result.reference, last'.passport_number,
                           last'.first_name, last'.last_name)) ]_vars

\* a booking made while another one is live, seen as Taken by check_availability
C6_Witness ==
    /\ last.op = "book_seat"
    /\ InBounds(last.row, last.column)
    /\ last.result.kind = "Booked"
    /\ Cardinality(DOMAIN bookings) = 2
    /\ check_availability(last.row, last.column).kind = "Taken"

\* C7: free_seat on a Booked seat returns Freed, removes the seat's reference
\* from the ledger and sets the cell to Free, so check_availability on the
\* cell right after it is Available.
C7_FreeThenCheckAvailable ==
    [][ \A row \in RowInputs, column \in ColumnInputs :
          (/\ last'.op = "free_seat"
           /\ last'.row = row /\ last'.column = column
           /\ InBounds(row, column)
           /\ IsReference(SeatAt(row, column)))
          => (/\ last'.result.kind = "Freed"
              /\ SeatAt(row, column) \in DOMAIN bookings
              /\ SeatAt(row, column) \notin DOMAIN bookings'
              /\ SeatAt(row, column)' = F
              /\ check_availability(row, column)'.kind = "Available") ]_vars

\* a booked seat has just been freed while another booking stays live
C7_Witness ==
    /\ last.op = "free_seat"
    /\ InBounds(last.row, last.column)
    /\ last.result.kind = "Freed"
    /\ SeatAt(last.row, last.column) = F
    /\ Cardinality(DOMAIN bookings) = 1

\* C8: a cell Blocked by __init__ is Blocked with the same kind in every
\* reachable state, and a cell bookable at __init__ is never Blocked.
C8_BlockedCellsFixed ==
    \A p \in GridCells :
        IF InitSeatAt(p[1], p[2]) \in {X, S}
        THEN SeatAt(p[1], p[2]) = InitSeatAt(p[1], p[2])
        ELSE SeatAt(p[1], p[2]) \notin {X, S}

\* book_seat or free_seat has just been called on a Blocked cell of a storage
\* row whose bookable seat is booked
C8_Witness ==
    /\ last.op \in {"book_seat", "free_seat"}
    /\ InBounds(last.row, last.column)
    /\ InitSeatAt(last.row, last.column) = S
    /\ IsReference(SeatAt(last.row, 0))

\* C9: the reference a successful book_seat returns is not a ledger key at
\* the moment of the call, and two bookings live at the same time (two
\* occupied cells of the row objects) have different references.
C9_FreshReference ==
    /\ [][ (last'.op = "book_seat" /\ last'.result.kind = "Booked")
           => last'.result.reference \notin DOMAIN bookings ]_vars
    /\ [](\A o1 \in DOMAIN lists, o2 \in DOMAIN lists :
            \A j1 \in 1..NumColumns, j2 \in 1..NumColumns :
               (IsReference(lists[o1][j1]) /\ <<o1, j1>> # <<o2, j2>>)
               => lists[o1][j1] # lists[o2][j2])

\* a second booking has been made while a first one is live
C9_Witness ==
    /\ last.op = "book_seat"
    /\ last.result.kind = "Booked"
    /\ Cardinality(DOMAIN bookings) = 2
    /\ Cardinality({ p \in GridCells : IsReference(SeatAt(p[1], p[2])) }) >= 2

\* C10: every grid cell that is neither Free nor Blocked holds a ledger key,
\* so check_availability's ledger lookup never fails and free_seat never
\* returns BookingNotFound.
C10_GridReferencesInLedger ==
    /\ \A p \in GridCells :
         IsReference(SeatAt(p[1], p[2])) => SeatAt(p[1], p[2]) \in DOMAIN bookings
    /\ \A row \in RowInputs, column \in ColumnInputs :
         check_availability(row, column).kind # "KeyError"
    /\ last.result.kind \notin {"KeyError", "BookingNotFound"}

\* check_availability has looked a booked seat up in the ledger while two
\* bookings are live
C10_Witness ==
    /\ last.op = "check_availability"
    /\ InBounds(last.row, last.column)
    /\ last.result.kind = "Taken"
    /\ Cardinality(DOMAIN bookings) = 2

\* the Free / Blocked / Booked shape of a grid: which reference a booked cell
\* holds is left out
Shape(grid) ==
    [p \in DOMAIN grid |-> IF IsReference(grid[p]) THEN <<"Booked">> ELSE grid[p]]

\* C11: book_seat on a Free in-bounds seat, free_seat on it, book_seat on it
\* again: each call succeeds, after the free_seat the grid and the ledger are
\* what they were before the first book_seat, and after the second book_seat
\* the grid has the Free/Booked shape it had after the first.
C11_RoundTrip ==
    /\ trip.phase = 1 => last.result.kind = "Booked"
    /\ trip.phase = 2 =>
         /\ last.result.kind = "Freed"
         /\ Grid = trip.grid0
         /\ bookings = trip.bookings0
    /\ trip.phase = 3 =>
         /\ last.result.kind = "Booked"
         /\ Shape(Grid) = Shape(trip.grid1)

\* a round trip completed whose second reference differs from the first
C11_Witness ==
    /\ trip.phase = 3
    /\ last.op = "book_seat"
    /\ last.result.kind = "Booked"
    /\ Grid[<<trip.row, trip.column>>] # trip.grid1[<<trip.row, trip.column>>]

\* the characters of Alphabet
AlphabetSet == { Alphabet[i] : i \in 1..Len(Alphabet) }

WellFormedReference(ref) ==
    /\ Len(ref) = RefLen
    /\ \A k \in 1..Len(ref) : ref[k] \in AlphabetSet

\* C12: the references generated in a row by generate_unique_booking_reference
\* are pairwise distinct and each is 8 characters of uppercase letters and
\* digits.
C12_GeneratedPairwiseDistinct ==
    /\ \A i \in 1..Len(generated), j \in 1..Len(generated) :
         i # j => generated[i] # generated[j]
    /\ \A i \in 1..Len(generated) : WellFormedReference(generated[i])

\* C12 as amended: each reference generated is 8 characters of uppercase
\* letters and digits and is not a key of the ledger (which direct calls
\* leave as it is, so nothing keeps two of them apart).
C12_GeneratedWellFormedAndUnused ==
    /\ \A i \in 1..Len(generated) :
         /\ WellFormedReference(generated[i])
         /\ generated[i] \notin DOMAIN bookings
    /\ \A ref \in DOMAIN bookings : WellFormedReference(ref)

\* three references generated in a row while a booking is live
C12_Witness ==
    /\ Len(generated) = 3
    /\ last.op = "generate_unique_booking_reference"
    /\ DOMAIN bookings # {}

\* C13: a successful book_seat(r, c) or free_seat(r, c) changes grid cell
\* (r, c) only, and the ledger gains (book_seat) or loses (free_seat) exactly
\* the entry of the call's reference, every other entry staying as it is.
C13_SingleCellFrame ==
    [][ \A row \in RowInputs, column \in ColumnInputs :
          (/\ last'.op \in {"book_seat", "free_seat"}
           /\ last'.row = row /\ last'.column = column
           /\ last'.result.kind \in {"Booked", "Freed"})
          => (/\ \A p \in GridCells : p # <<row, column>> => Grid'[p] = Grid[p]
              /\ \A ref \in DOMAIN bookings \cap DOMAIN bookings' :
                   bookings'[ref] = bookings[ref]
              /\ last'.result.kind = "Booked" =>
                   /\ last'.result.reference \notin DOMAIN bookings
                   /\ DOMAIN bookings' = DOMAIN bookings \cup {last'.result.reference}
              /\ last'.result.kind = "Freed" =>
                   /\ last'.result.reference \in DOMAIN bookings
                   /\ DOMAIN bookings' = DOMAIN bookings \ {last'.result.reference}) ]_vars

\* C14: from any state, corrupted ones included, free_seat on a cell holding
\* a reference that is not a ledger key returns BookingNotFound and leaves
\* grid and ledger unchanged: the cell keeps the reference.
C14_FreeUnknownReference ==
    [][ \A row \in RowInputs, column \in ColumnInputs :
          (/\ last'.op = "free_seat"
           /\ last'.row = row /\ last'.column = column
           /\ SeatIndexOk(row, column)
           /\ IsReference(SeatAt(row, column))
           /\ SeatAt(row, column) \notin DOMAIN bookings)
          => (/\ last'.result.kind = "BookingNotFound"
              /\ UNCHANGED <<seating, lists, bookings>>) ]_vars

\* free_seat has just found a reference that the ledger does not hold, while
\* the ledger holds another one
C14_Witness ==
    /\ last.op = "free_seat"
    /\ last.result.kind = "BookingNotFound"
    /\ InBounds(last.row, last.column)
    /\ IsReference(SeatAt(last.row, last.column))
    /\ SeatAt(last.row, last.column) \notin DOMAIN bookings
    /\ DOMAIN bookings # {}

\* the cells of the row objects of the grid
RowObjectCells ==
    { <<seating[i], j>> : i \in 1..Len(seating), j \in 1..NumColumns }

\* C15: the ledger holds at most one reference per bookable seat, fewer than
\* the alphabet has characters (and so fewer than there are references); an
\* unused reference exists whenever the loop runs; under fair drawing the
\* loop returns, and every book_seat call completes.
C15_LoopTerminates ==
    /\ [](/\ Cardinality(DOMAIN bookings)
               <= Cardinality({ c \in RowObjectCells : IsReference(lists[c[1]][c[2]]) })
          /\ Cardinality({ c \in RowObjectCells : IsReference(lists[c[1]][c[2]]) })
               <= Cardinality({ c \in RowObjectCells : InitLists[c[1]][c[2]] = F })
          /\ Cardinality({ c \in RowObjectCells : InitLists[c[1]][c[2]] = F })
               < Len(Alphabet))
    /\ [](calls["t1"].pc = "generate" => \E draw \in DrawSet : DrawAccepted(draw))
    /\ (calls["t1"].pc = "generate") ~> (calls["t1"].pc = "write")
    /\ (calls["t1"].pc = "check") ~> (calls["t1"].pc = "done")

\* the loop has drawn a ledger key, rejected it and is still running
C15_Witness ==
    /\ calls["t1"].pc = "generate"
    /\ calls["t1"].reference \in DOMAIN bookings

\* the cell of a row object that self.seating[row][column] is
RowObjectCell(row, column) == <<getitem(seating, row), PyIndex(NumColumns, column) + 1>>

\* both calls have returned, and they were made on the same cell, Free when
\* they began
TwoCallsOnOneFreeCell ==
    /\ calls["t1"].pc = "done" /\ calls["t2"].pc = "done"
    /\ SeatIndexOk(calls["t1"].row, calls["t1"].column)
    /\ SeatIndexOk(calls["t2"].row, calls["t2"].column)
    /\ RowObjectCell(calls["t1"].row, calls["t1"].column)
         = RowObjectCell(calls["t2"].row, calls["t2"].column)
    /\ InitSeatAt(calls["t1"].row, calls["t1"].column) = F

ExactlyOneBooked ==
    /\ { calls["t1"].result.kind, calls["t2"].result.kind }
         = {"Booked", "SeatUnavailable"}
    /\ \A ref \in DOMAIN bookings :
         \E c \in RowObjectCells : lists[c[1]][c[2]] = ref

\* C18: two book_seat calls on the same Free cell with their lines
\* interleaved: exactly one succeeds, the other returns SeatUnavailable, and
\* no ledger entry is left whose reference no cell holds.
C18_RaceOneWinner == TwoCallsOnOneFreeCell => ExactlyOneBooked

\* C18 as amended: the same, for two calls of which neither began while the
\* other was running.
C18_SerialOneWinner ==
    (/\ TwoCallsOnOneFreeCell
     /\ ~calls["t1"].overlapped
     /\ ~calls["t2"].overlapped)
    => ExactlyOneBooked

\* two calls on one Free cell, one after the other, through different
\* coordinates
C18_Witness ==
    /\ TwoCallsOnOneFreeCell
    /\ ~calls["t1"].overlapped
    /\ ~calls["t2"].overlapped
    /\ calls["t1"].row # calls["t2"].row
    /\ calls["t1"].result.kind = "SeatUnavailable"

\* C16: for all integer coordinates and in every reachable state the four
\* operations return a value and raise nothing: is_seat_valid is false
\* wherever indexing the grid would raise IndexError, no caller indexes the
\* grid where it would, and no ledger lookup raises KeyError.
C16_NeverRaises ==
    /\ last.result.kind \notin {"IndexError", "KeyError"}
    /\ \A row \in RowInputs, column \in ColumnInputs :
         /\ is_seat_valid(row, column) => SeatIndexOk(row, column)
         /\ ~CheckIndexError(row, column)
         /\ ~BookIndexError(row, column)
         /\ ~FreeIndexError(row, column)
         /\ check_availability(row, column).kind \notin {"IndexError", "KeyError"}

\* book_seat has been called with a row below the grid while a booking is live
C16_Witness ==
    /\ last.op = "book_seat"
    /\ last.row < 0 - NumRows
    /\ last.result.kind = "SeatUnavailable"
    /\ DOMAIN bookings # {}

\* what a cell value alone says about the cell
CellClass(v) ==
    IF v = F THEN F ELSE IF v = X THEN X ELSE IF v = S THEN S ELSE <<"R">>

\* C17: is_seat_valid, check_availability and show_booking_state leave grid
\* and ledger unchanged in every state, whatever their arguments and result,
\* and show_booking_state shows each cell by its value alone, whether or not
\* the ledger holds it.
C17_QueriesReadOnly ==
    [][ (last'.op \in {"is_seat_valid", "check_availability", "show_booking_state"})
        => (/\ UNCHANGED <<seating, lists, bookings>>
            /\ last'.op = "show_booking_state" =>
                 /\ DOMAIN last'.view = 1..NumRows
                 /\ \A p \in GridCells :
                      last'.view[p[1] + 1][p[2] + 1] = CellClass(Grid[p])) ]_vars

\* show_booking_state has shown as booked a seat whose reference the ledger
\* does not hold
C17_Witness ==
    /\ last.op = "show_booking_state"
    /\ \E p \in GridCells :
         /\ IsReference(Grid[p])
         /\ Grid[p] \notin DOMAIN bookings
         /\ last.view[p[1] + 1][p[2] + 1] = <<"R">>

\* C19: is_seat_valid(seat=v) is false exactly for 'X' and 'S', and for every
\* in-bounds (row, column) is_seat_valid(row, column) equals
\* is_seat_valid(seat=grid[row][column]).
C19_SeatValueAgrees ==
    /\ \A v \in {F, X, S, <<"R">>, <<>>} \cup DrawSet :
         is_seat_valid_seat(v) <=> v \notin {X, S}
    /\ \A p \in GridCells :
         is_seat_valid(p[1], p[2]) <=> is_seat_valid_seat(Grid[p])

\* is_seat_valid has been called on a booked seat of a row with storage cells
C19_Witness ==
    /\ last.op = "is_seat_valid"
    /\ InBounds(last.row, last.column)
    /\ IsReference(SeatAt(last.row, last.column))
    /\ last.result.kind = "True"
    /\ SeatAt(last.row, 2) = S

====
